---- MODULE Spec2Model ----
(***************************************************************************)
(* A model of dodopow (src/src/lib.rs): the Graph of N = 2^n directed      *)
(* (top, bottom) edges, Graph::new, Graph::solve / Graph::solve_for and    *)
(* Graph::verify.                                                          *)
(*                                                                         *)
(* Rust slices and Vecs are 0-based; TLA+ sequences are 1-based.  A path   *)
(* or cycle position i of the source is position i + 1 here.  Vertex       *)
(* identifiers keep their values; the per-vertex tables top_nodes and      *)
(* bottom_nodes are functions over 0 .. edges_number - 1.                  *)
(* Option<T> is a sequence of length 0 (None) or 1 (Some).                 *)
(***************************************************************************)
EXTENDS Integers, Sequences, FiniteSets, TLC

VARIABLES
    graph,            \* self.0: the edge list, a sequence of <<top, bottom>>
    pc,               \* position of the solve / solve_for call
    mode,             \* "none", "solve" or "solve_for": the entry point called
    max_depth,        \* solve's max_depth argument
    diff,             \* solve_for's diff argument
    top_nodes,        \* solve's top_nodes table (<<>> before it is built)
    bottom_nodes,     \* solve's bottom_nodes table (<<>> before it is built)
    cleared,          \* the vertices whose list a pruning pass cleared
    target_top_node,  \* the outer DFS loop's variable
    stack,            \* the DFS stack, top of stack last
    visited,          \* the DFS visited set of side-tagged nodes
    calls,            \* the handler invocations so far: [cycle, target, ret]
    result,           \* solve's return value, None until it returns
    steps,            \* the steps the solve / solve_for call has taken
    cycle,            \* verify's argument
    vpc,              \* position of the verify call
    vresult,          \* verify's return value
    n,                \* Graph::new's n argument
    gpc,              \* position of the Graph::new call
    edges_number,     \* Graph::new's edges_number (a usize)
    nodes,            \* Graph::new's nodes Vec
    drawn             \* the two words drawn for the edge pushed last

vars == <<graph, pc, mode, max_depth, diff, top_nodes, bottom_nodes, cleared,
          target_top_node, stack, visited, calls, result, steps, cycle, vpc,
          vresult, n, gpc, edges_number, nodes, drawn>>

solveVars == <<pc, mode, max_depth, diff, top_nodes, bottom_nodes, cleared,
               target_top_node, stack, visited, calls, result, steps>>
verifyVars == <<cycle, vpc, vresult>>
newVars == <<n, gpc, edges_number, nodes, drawn>>

----------------------------------------------------------------------------
(* Bounds of the model.                                                    *)

\* n of the graphs handed to solve and verify: they have 2^LogEdges edges.
LogEdges == 3
\* The distinct edges of a graph handed to solve are among the first
\* EdgeKinds vertex pairs (see Pair).
EdgeKinds == 9
\* max_depth and diff range over 0 .. MaxDepth.
MaxDepth == 7
\* The distinct edges of a graph handed to verify are among the first
\* VerifyEdgeKinds vertex pairs; the sequences handed to it have at most
\* MaxCycleLen elements.
VerifyEdgeKinds == 4
MaxCycleLen == 5
\* The width of a u32 in the model of Graph::new: words are WordBits bits
\* wide and a usize is twice as wide (32 and 64 in the build).
WordBits == 2

None == <<>>
Some(x) == <<x>>

Top(v) == <<"Top", v>>
Bottom(v) == <<"Bottom", v>>

Contains(list, x) == \E i \in 1..Len(list) : list[i] = x
Retain(list, x) == SelectSeq(list, LAMBDA y : y # x)

----------------------------------------------------------------------------
(* The graphs solve and verify are run on.  Graph::new yields 2^n edges    *)
(* with both endpoints below 2^n.  Here the distinct edges of a graph are  *)
(* any non-empty set of the first `kinds` vertex pairs, stored in          *)
(* ascending or descending order, the remaining slots repeating the last   *)
(* edge.  The pairs are counted shell by shell: <<0,0>>, then the pairs    *)
(* whose larger vertex is 1, then those whose larger vertex is 2, ...      *)

NumEdges == 2 ^ LogEdges

Isqrt(k) == CHOOSE m \in 0..k : m * m <= k /\ k < (m + 1) * (m + 1)

\* The k-th vertex pair, k >= 0.
Pair(k) ==
    LET m == Isqrt(k)
        r == k - m * m
    IN IF r < m THEN <<r, m>> ELSE <<m, r - m>>

EdgeUniverse(kinds) == {Pair(k) : k \in 0 .. kinds - 1}
VerticesOf(kinds) == {e[1] : e \in EdgeUniverse(kinds)} \cup {e[2] : e \in EdgeUniverse(kinds)}

EdgeLess(e, f) == e[1] < f[1] \/ (e[1] = f[1] /\ e[2] < f[2])

RECURSIVE SortedSeq(_)
SortedSeq(S) ==
    IF S = {} THEN <<>>
    ELSE LET m == CHOOSE e \in S : \A f \in S \ {e} : EdgeLess(e, f)
         IN <<m>> \o SortedSeq(S \ {m})

Reverse(s) == [i \in 1..Len(s) |-> s[Len(s) + 1 - i]]
Pad(s, len) == [i \in 1..len |-> IF i <= Len(s) THEN s[i] ELSE s[Len(s)]]

EdgeSets(kinds) ==
    {S \in SUBSET EdgeUniverse(kinds) : S # {} /\ Cardinality(S) <= NumEdges}
GraphsOver(kinds) ==
    {Pad(SortedSeq(S), NumEdges) : S \in EdgeSets(kinds)}
    \cup {Pad(Reverse(SortedSeq(S)), NumEdges) : S \in EdgeSets(kinds)}

Graphs == GraphsOver(EdgeKinds)

----------------------------------------------------------------------------
(* Graph::solve: adjacency construction (lib.rs 45-59).                    *)

EmptyTable(len) == [v \in 0 .. len - 1 |-> <<>>]

\* One iteration of `for (top_node, bottom_node) in &self.0`.
AddEdge(adj, top_node, bottom_node) ==
    [top |-> IF Contains(adj.top[top_node], bottom_node) THEN adj.top
             ELSE [adj.top EXCEPT ![top_node] = Append(@, bottom_node)],
     bottom |-> IF Contains(adj.bottom[bottom_node], top_node) THEN adj.bottom
                ELSE [adj.bottom EXCEPT ![bottom_node] = Append(@, top_node)]]

RECURSIVE BuildFrom(_, _, _)
BuildFrom(edges, k, adj) ==
    IF k > Len(edges) THEN adj
    ELSE BuildFrom(edges, k + 1, AddEdge(adj, edges[k][1], edges[k][2]))

BuildAdjacency(edges) ==
    BuildFrom(edges, 1, [top |-> EmptyTable(Len(edges)),
                         bottom |-> EmptyTable(Len(edges))])

\* Indexing a table with a vertex that is not below edges_number panics.
InRange(edges) ==
    \A k \in 1..Len(edges) : edges[k][1] < Len(edges) /\ edges[k][2] < Len(edges)

----------------------------------------------------------------------------
(* Graph::solve: the two pruning passes (lib.rs 61-87).  A pass state is   *)
(* [top, bottom, cleared]: the two tables and the vertices the pass has    *)
(* cleared so far.                                                         *)

\* PruneTopNode with `len() < 3`.
PruneTopNodeBelow3(st, top_node) ==
    IF Len(st.top[top_node]) < 3
    THEN [top |-> [st.top EXCEPT ![top_node] = <<>>],
          bottom |-> [b \in DOMAIN st.bottom |->
                         IF Contains(st.top[top_node], b)
                         THEN Retain(st.bottom[b], top_node)
                         ELSE st.bottom[b]],
          cleared |-> st.cleared \cup {top_node}]
    ELSE st

\* The body of `for top_node in 0..edges_number`.
PruneTopNode(st, top_node) ==
    IF Len(st.top[top_node]) < 2
    THEN [top |-> [st.top EXCEPT ![top_node] = <<>>],
          bottom |-> [b \in DOMAIN st.bottom |->
                         IF Contains(st.top[top_node], b)
                         THEN Retain(st.bottom[b], top_node)
                         ELSE st.bottom[b]],
          cleared |-> st.cleared \cup {top_node}]
    ELSE st

\* PruneBottomNode without the `retain` on the top lists.
PruneBottomNodeNoRetain(st, bottom_node) ==
    IF Len(st.bottom[bottom_node]) < 2
    THEN [top |-> st.top,
          bottom |-> [st.bottom EXCEPT ![bottom_node] = <<>>],
          cleared |-> st.cleared \cup {bottom_node}]
    ELSE st

\* The body of `for bottom_node in 0..edges_number`.
PruneBottomNode(st, bottom_node) ==
    IF Len(st.bottom[bottom_node]) < 2
    THEN [top |-> [t \in DOMAIN st.top |->
                      IF Contains(st.bottom[bottom_node], t)
                      THEN Retain(st.top[t], bottom_node)
                      ELSE st.top[t]],
          bottom |-> [st.bottom EXCEPT ![bottom_node] = <<>>],
          cleared |-> st.cleared \cup {bottom_node}]
    ELSE st

RECURSIVE PruneTopPass(_, _, _)
PruneTopPass(st, top_node, len) ==
    IF top_node >= len THEN st
    ELSE PruneTopPass(PruneTopNode(st, top_node), top_node + 1, len)

RECURSIVE PruneBottomPass(_, _, _)
PruneBottomPass(st, bottom_node, len) ==
    IF bottom_node >= len THEN st
    ELSE PruneBottomPass(PruneBottomNode(st, bottom_node), bottom_node + 1, len)

----------------------------------------------------------------------------
(* Graph::solve: the DFS (lib.rs 96-150).                                  *)

\* `visited.insert(node) && path.len() < max_depth`
ShouldExpand(vis, node, path, depth) == node \notin vis /\ Len(path) < depth

\* IsClosing with `path.len() > 2`.
IsClosingShort(node, path, target) == node = Top(target) /\ Len(path) > 2

\* `node == GraphSide::Top(target_top_node) && path.len() > 3`
IsClosing(node, path, target) == node = Top(target) /\ Len(path) > 3

\* Pushed with the neighbours of a bottom node read from the wrong table.
PushedWrongTable(node, path, top, bottom) ==
    LET list == top[node[2]]
    IN IF node[1] = "Top"
       THEN [i \in 1..Len(list) |->
                [node |-> Bottom(list[i]), path |-> Append(path, list[i])]]
       ELSE [i \in 1..Len(list) |->
                [node |-> Top(list[i]), path |-> Append(path, list[i])]]

\* The frames pushed for `node`, in adjacency-list order.
Pushed(node, path, top, bottom) ==
    IF node[1] = "Top"
    THEN LET list == top[node[2]]
         IN [i \in 1..Len(list) |->
                [node |-> Bottom(list[i]), path |-> Append(path, list[i])]]
    ELSE LET list == bottom[node[2]]
         IN [i \in 1..Len(list) |->
                [node |-> Top(list[i]), path |-> Append(path, list[i])]]

\* The targets the outer loop has still to look at, from `from` on, whose
\* top_nodes list is not empty.
LiveTargets(from, top) == {t \in DOMAIN top : t >= from /\ top[t] # <<>>}

Min(S) == CHOOSE x \in S : \A y \in S : x <= y

----------------------------------------------------------------------------
(* The solve and solve_for calls, step by step.                            *)

\* graph.solve(depth, handler) with a handler that may answer anything.
CallSolve(depth) ==
    /\ pc = "idle"
    /\ mode' = "solve"
    /\ max_depth' = depth
    /\ pc' = "build"
    /\ UNCHANGED <<graph, diff, top_nodes, bottom_nodes, cleared,
                   target_top_node, stack, visited, calls, result>>
    /\ steps' = steps + 1
    /\ UNCHANGED verifyVars /\ UNCHANGED newVars

\* InvalidDiff without the parity test.
InvalidDiffNoParity(d) == d < 5

\* `diff % 2 == 0 || diff < 5`
InvalidDiff(d) == d % 2 = 0 \/ d < 5

\* graph.solve_for(d) with a diff it refuses: lib.rs 158-160.
SolveForInvalid(d) ==
    /\ pc = "idle"
    /\ InvalidDiff(d)
    /\ mode' = "solve_for"
    /\ diff' = d
    /\ result' = None
    /\ pc' = "done"
    /\ UNCHANGED <<graph, max_depth, top_nodes, bottom_nodes, cleared,
                   target_top_node, stack, visited, calls>>
    /\ steps' = steps + 1
    /\ UNCHANGED verifyVars /\ UNCHANGED newVars

\* graph.solve_for(d) entering self.solve(diff, |cycle| cycle.len() == diff).
SolveForValid(d) ==
    /\ pc = "idle"
    /\ ~InvalidDiff(d)
    /\ mode' = "solve_for"
    /\ diff' = d
    /\ max_depth' = d
    /\ pc' = "build"
    /\ UNCHANGED <<graph, top_nodes, bottom_nodes, cleared,
                   target_top_node, stack, visited, calls, result>>
    /\ steps' = steps + 1
    /\ UNCHANGED verifyVars /\ UNCHANGED newVars

\* lib.rs 45-59.
Build ==
    /\ pc = "build"
    /\ IF InRange(graph)
       THEN LET adj == BuildAdjacency(graph)
            IN /\ top_nodes' = adj.top
               /\ bottom_nodes' = adj.bottom
               /\ pc' = "prune_top"
       ELSE /\ pc' = "panic"
            /\ UNCHANGED <<top_nodes, bottom_nodes>>
    /\ UNCHANGED <<graph, mode, max_depth, diff, cleared, target_top_node,
                   stack, visited, calls, result>>
    /\ steps' = steps + 1
    /\ UNCHANGED verifyVars /\ UNCHANGED newVars

\* lib.rs 61-73.
PruneTop ==
    /\ pc = "prune_top"
    /\ LET st == PruneTopPass([top |-> top_nodes, bottom |-> bottom_nodes,
                               cleared |-> {}], 0, Len(graph))
       IN /\ top_nodes' = st.top
          /\ bottom_nodes' = st.bottom
          /\ cleared' = [cleared EXCEPT !.top = st.cleared]
    /\ pc' = "prune_bottom"
    /\ UNCHANGED <<graph, mode, max_depth, diff, target_top_node,
                   stack, visited, calls, result>>
    /\ steps' = steps + 1
    /\ UNCHANGED verifyVars /\ UNCHANGED newVars

\* lib.rs 75-87.
PruneBottom ==
    /\ pc = "prune_bottom"
    /\ LET st == PruneBottomPass([top |-> top_nodes, bottom |-> bottom_nodes,
                                  cleared |-> {}], 0, Len(graph))
       IN /\ top_nodes' = st.top
          /\ bottom_nodes' = st.bottom
          /\ cleared' = [cleared EXCEPT !.bottom = st.cleared]
    /\ pc' = "pruned"
    /\ UNCHANGED <<graph, mode, max_depth, diff, target_top_node,
                   stack, visited, calls, result>>
    /\ steps' = steps + 1
    /\ UNCHANGED verifyVars /\ UNCHANGED newVars

\* Where the outer loop resumes: at 0 after pruning, after the current
\* target once its stack has run empty.
ResumeAt == IF pc = "pruned" THEN 0 ELSE target_top_node + 1

\* lib.rs 96-107: the outer loop skips the targets with an empty list and
\* starts the DFS of the next one.
StartTarget ==
    /\ pc = "pruned" \/ (pc = "dfs" /\ stack = <<>>)
    /\ LiveTargets(ResumeAt, top_nodes) # {}
    /\ LET t == Min(LiveTargets(ResumeAt, top_nodes))
       IN /\ target_top_node' = t
          /\ stack' = <<[node |-> Top(t), path |-> <<t>>]>>
    /\ visited' = {}
    /\ pc' = "dfs"
    /\ UNCHANGED <<graph, mode, max_depth, diff, top_nodes, bottom_nodes,
                   cleared, calls, result>>
    /\ steps' = steps + 1
    /\ UNCHANGED verifyVars /\ UNCHANGED newVars

\* lib.rs 96-98, 149: no target is left, solve returns None.
Exhaust ==
    /\ pc = "pruned" \/ (pc = "dfs" /\ stack = <<>>)
    /\ LiveTargets(ResumeAt, top_nodes) = {}
    /\ result' = None
    /\ pc' = "done"
    /\ UNCHANGED <<graph, mode, max_depth, diff, top_nodes, bottom_nodes,
                   cleared, target_top_node, stack, visited, calls>>
    /\ steps' = steps + 1
    /\ UNCHANGED verifyVars /\ UNCHANGED newVars

TopFrame == stack[Len(stack)]
Popped == SubSeq(stack, 1, Len(stack) - 1)

\* lib.rs 109-138: a first visit below the depth bound pushes the neighbours.
PopExpand ==
    /\ pc = "dfs" /\ stack # <<>>
    /\ ShouldExpand(visited, TopFrame.node, TopFrame.path, max_depth)
    /\ visited' = visited \cup {TopFrame.node}
    /\ stack' = Popped \o Pushed(TopFrame.node, TopFrame.path, top_nodes, bottom_nodes)
    /\ UNCHANGED <<graph, pc, mode, max_depth, diff, top_nodes, bottom_nodes,
                   cleared, target_top_node, calls, result>>
    /\ steps' = steps + 1
    /\ UNCHANGED verifyVars /\ UNCHANGED newVars

\* lib.rs 140-141 failing: the frame is dropped, the handler is not called.
PopDrop ==
    /\ pc = "dfs" /\ stack # <<>>
    /\ ~ShouldExpand(visited, TopFrame.node, TopFrame.path, max_depth)
    /\ ~IsClosing(TopFrame.node, TopFrame.path, target_top_node)
    /\ visited' = visited \cup {TopFrame.node}
    /\ stack' = Popped
    /\ UNCHANGED <<graph, pc, mode, max_depth, diff, top_nodes, bottom_nodes,
                   cleared, target_top_node, calls, result>>
    /\ steps' = steps + 1
    /\ UNCHANGED verifyVars /\ UNCHANGED newVars

\* What the handler may answer on `path`: solve_for's closure compares the
\* length with diff, any other handler is free.
HandlerAnswers(path) ==
    IF mode = "solve_for" THEN {Len(path) = diff} ELSE BOOLEAN

\* PopClosing without the `return`: the search goes on after a true answer.
PopClosingNoReturn ==
    /\ pc = "dfs" /\ stack # <<>>
    /\ ~ShouldExpand(visited, TopFrame.node, TopFrame.path, max_depth)
    /\ IsClosing(TopFrame.node, TopFrame.path, target_top_node)
    /\ visited' = visited \cup {TopFrame.node}
    /\ stack' = Popped
    /\ \E ret \in HandlerAnswers(TopFrame.path) :
          calls' = Append(calls, [cycle |-> TopFrame.path,
                                  target |-> target_top_node, ret |-> ret])
    /\ UNCHANGED <<graph, pc, result, mode, max_depth, diff, top_nodes,
                   bottom_nodes, cleared, target_top_node>>
    /\ steps' = steps + 1
    /\ UNCHANGED verifyVars /\ UNCHANGED newVars

\* lib.rs 140-145: the handler is called on a closing path; true returns it.
PopClosing ==
    /\ pc = "dfs" /\ stack # <<>>
    /\ ~ShouldExpand(visited, TopFrame.node, TopFrame.path, max_depth)
    /\ IsClosing(TopFrame.node, TopFrame.path, target_top_node)
    /\ visited' = visited \cup {TopFrame.node}
    /\ stack' = Popped
    /\ \E ret \in HandlerAnswers(TopFrame.path) :
          /\ calls' = Append(calls, [cycle |-> TopFrame.path,
                                     target |-> target_top_node, ret |-> ret])
          /\ IF ret
             THEN result' = Some(TopFrame.path) /\ pc' = "done"
             ELSE UNCHANGED <<result, pc>>
    /\ UNCHANGED <<graph, mode, max_depth, diff, top_nodes, bottom_nodes,
                   cleared, target_top_node>>
    /\ steps' = steps + 1
    /\ UNCHANGED verifyVars /\ UNCHANGED newVars

SolveInit ==
    /\ graph \in Graphs
    /\ pc = "idle"
    /\ mode = "none"
    /\ max_depth = 0
    /\ diff = 0
    /\ top_nodes = <<>>
    /\ bottom_nodes = <<>>
    /\ cleared = [top |-> {}, bottom |-> {}]
    /\ target_top_node = 0
    /\ stack = <<>>
    /\ visited = {}
    /\ calls = <<>>
    /\ result = None
    /\ steps = 0

SolveIdle ==
    /\ pc = "off"
    /\ mode = "none"
    /\ max_depth = 0
    /\ diff = 0
    /\ top_nodes = <<>>
    /\ bottom_nodes = <<>>
    /\ cleared = [top |-> {}, bottom |-> {}]
    /\ target_top_node = 0
    /\ stack = <<>>
    /\ visited = {}
    /\ calls = <<>>
    /\ result = None
    /\ steps = 0

VerifyIdle == cycle = <<>> /\ vpc = "off" /\ vresult = FALSE
NewIdle == n = 0 /\ gpc = "off" /\ edges_number = 0 /\ nodes = <<>> /\ drawn = <<>>

Init == SolveInit /\ VerifyIdle /\ NewIdle

Next ==
    \/ \E depth \in 0..MaxDepth : CallSolve(depth)
    \/ \E d \in 0..MaxDepth : SolveForInvalid(d)
    \/ \E d \in 0..MaxDepth : SolveForValid(d)
    \/ Build
    \/ PruneTop
    \/ PruneBottom
    \/ StartTarget
    \/ Exhaust
    \/ PopExpand
    \/ PopDrop
    \/ PopClosing

Spec == Init /\ [][Next]_vars

----------------------------------------------------------------------------
(* Graph::verify (lib.rs 166-197).                                         *)

\* EdgeScan looking for a top -> bottom edge at every step.
RECURSIVE EdgeScanOneWay(_, _, _, _)
EdgeScanOneWay(self, cyc, i, k) ==
    IF k > Len(self) THEN FALSE
    ELSE IF self[k][1] = cyc[i] /\ self[k][2] = cyc[i + 1]
         THEN TRUE
         ELSE EdgeScanOneWay(self, cyc, i, k + 1)

\* The `for (top_node, bottom_node) in &self.0` scan of step i, from edge k
\* on: whether it sets `found`.  The source's cycle[i - 1] and cycle[i] are
\* cyc[i] and cyc[i + 1].
RECURSIVE EdgeScan(_, _, _, _)
EdgeScan(self, cyc, i, k) ==
    IF k > Len(self) THEN FALSE
    ELSE IF \/ (i % 2 # 0 /\ self[k][1] = cyc[i] /\ self[k][2] = cyc[i + 1])
            \/ (i % 2 = 0 /\ self[k][2] = cyc[i] /\ self[k][1] = cyc[i + 1])
         THEN TRUE
         ELSE EdgeScan(self, cyc, i, k + 1)

\* The `while i < n` loop from step i on.
RECURSIVE VerifyFrom(_, _, _)
VerifyFrom(self, cyc, i) ==
    IF ~(i < Len(cyc)) THEN TRUE
    ELSE IF ~EdgeScan(self, cyc, i, 1) THEN FALSE
    ELSE VerifyFrom(self, cyc, i + 1)

verify(self, cyc) ==
    IF Len(cyc) % 2 = 0 THEN FALSE ELSE VerifyFrom(self, cyc, 1)

SeqsUpTo(S, len) == UNION {[1..k -> S] : k \in 0..len}

VerifyInit ==
    /\ graph \in GraphsOver(VerifyEdgeKinds)
    /\ cycle \in SeqsUpTo(VerticesOf(VerifyEdgeKinds), MaxCycleLen)
    /\ vpc = "idle"
    /\ vresult = FALSE

\* graph.verify(&cycle)
Verify ==
    /\ vpc = "idle"
    /\ vresult' = verify(graph, cycle)
    /\ vpc' = "done"
    /\ UNCHANGED <<graph, cycle>>
    /\ UNCHANGED solveVars /\ UNCHANGED newVars

InitVerify == VerifyInit /\ SolveIdle /\ NewIdle

SpecVerify == InitVerify /\ [][Verify]_vars

----------------------------------------------------------------------------
(* Graph::new (lib.rs 17-33), on a 64-bit build scaled to WordBits.        *)

Words == 0 .. 2 ^ WordBits - 1
UsizeBits == 2 * WordBits

\* `1_usize << n`, for n below the width of a usize
Shl1(k) == (2 ^ k) % (2 ^ UsizeBits)
\* `x as u32`
AsU32(x) == x % (2 ^ WordBits)

NewInit ==
    /\ graph = <<>>
    /\ n \in 0 .. WordBits + 1
    /\ gpc = "idle"
    /\ edges_number = 0
    /\ nodes = <<>>
    /\ drawn = <<>>

\* lib.rs 18-22: the assertion, edges_number and the empty Vec.
New ==
    /\ gpc = "idle"
    /\ IF n <= WordBits
       THEN edges_number' = Shl1(n) /\ gpc' = "loop"
       ELSE gpc' = "panic" /\ UNCHANGED edges_number
    /\ UNCHANGED <<graph, n, nodes, drawn>>
    /\ UNCHANGED solveVars /\ UNCHANGED verifyVars

\* lib.rs 24-30: one iteration on the words a and b.  `%` by zero panics.
PushEdge ==
    /\ gpc = "loop"
    /\ Len(nodes) < edges_number
    /\ \E a \in Words, b \in Words :
          IF AsU32(edges_number) = 0
          THEN gpc' = "panic" /\ UNCHANGED <<nodes, drawn>>
          ELSE /\ nodes' = Append(nodes, <<a % AsU32(edges_number),
                                           b % AsU32(edges_number)>>)
               /\ drawn' = <<a, b>>
               /\ UNCHANGED gpc
    /\ UNCHANGED <<graph, n, edges_number>>
    /\ UNCHANGED solveVars /\ UNCHANGED verifyVars

\* lib.rs 32: Self(nodes.into_boxed_slice())
Return ==
    /\ gpc = "loop"
    /\ Len(nodes) = edges_number
    /\ graph' = nodes
    /\ gpc' = "done"
    /\ UNCHANGED <<n, edges_number, nodes, drawn>>
    /\ UNCHANGED solveVars /\ UNCHANGED verifyVars

NewNext == New \/ PushEdge \/ Return

InitNew == NewInit /\ SolveIdle /\ VerifyIdle

SpecNew == InitNew /\ [][NewNext]_vars

----------------------------------------------------------------------------
(* Cycles of a graph, as the properties below speak of them.               *)

EdgeSet(g) == {g[k] : k \in 1..Len(g)}

\* The vertices that may follow the alternating walk w without repeating a
\* side-tagged vertex: a bottom after an odd position, a top after an even.
Extensions(E, w) ==
    IF Len(w) % 2 = 1
    THEN {e[2] : e \in {f \in E : f[1] = w[Len(w)]}}
         \ {w[i] : i \in {j \in 1..Len(w) : j % 2 = 0}}
    ELSE {e[1] : e \in {f \in E : f[2] = w[Len(w)]}}
         \ {w[i] : i \in {j \in 1..Len(w) : j % 2 = 1}}

\* The alternating walks of k pairwise distinct side-tagged vertices that
\* start at a top vertex.
RECURSIVE SimpleWalks(_, _)
SimpleWalks(E, k) ==
    IF k = 1 THEN {<<e[1]>> : e \in E}
    ELSE UNION {{Append(w, v) : v \in Extensions(E, w)} : w \in SimpleWalks(E, k - 1)}

\* The cycles of sequence length len (odd): a simple walk of len - 1 vertices
\* closed by an edge from its last bottom back to its first top.
CyclesOfLen(g, len) ==
    {Append(w, w[1]) : w \in {x \in SimpleWalks(EdgeSet(g), len - 1) :
                                 <<x[1], x[len - 1]>> \in EdgeSet(g)}}

\* No cycle of the graphs above is longer than this.
LongestCycle == 2 * Cardinality(VerticesOf(EdgeKinds)) + 1
CycleLens == {len \in 5..LongestCycle : len % 2 = 1}

\* The pruning passes have finished.
Pruned == pc \in {"pruned", "dfs"} \/ (pc = "done" /\ top_nodes # <<>>)

NoDuplicates(list) == \A i, j \in 1..Len(list) : list[i] = list[j] => i = j

----------------------------------------------------------------------------
(* Properties.                                                             *)

\* C1: a sequence returned by solve or solve_for is accepted by verify on the
\* same graph.
SolveSoundness ==
    (pc = "done" /\ result # None) => verify(graph, result[1])

WitnessSolveSoundness ==
    pc = "done" /\ mode = "solve" /\ result # None /\ verify(graph, result[1])

\* C2: verify answers true exactly when the length is odd and every step i
\* has its edge: top cycle[i-1] to bottom cycle[i] for odd i, top cycle[i] to
\* bottom cycle[i-1] for even i; closure plays no part.
VerifyReference(g, cyc) ==
    /\ Len(cyc) % 2 = 1
    /\ \A i \in 1 .. Len(cyc) - 1 :
          IF i % 2 = 1 THEN <<cyc[i], cyc[i + 1]>> \in EdgeSet(g)
                       ELSE <<cyc[i + 1], cyc[i]>> \in EdgeSet(g)

VerifyMatchesReference ==
    vpc = "done" => (vresult <=> VerifyReference(graph, cycle))

WitnessVerifyOpenWalk ==
    /\ vpc = "done" /\ vresult
    /\ Len(cycle) >= 5 /\ cycle[1] # cycle[Len(cycle)]

\* C3: verify rejects every input that is not a closed sequence of odd
\* length >= 5.
VerifyRejectsMalformed ==
    (vpc = "done" /\ ~(/\ Len(cycle) % 2 = 1
                       /\ Len(cycle) >= 5
                       /\ cycle[1] = cycle[Len(cycle)]))
    => ~vresult

\* C4: every sequence handed to the handler starts and ends at the target of
\* the DFS that found it and has an odd length between 5 and max_depth.
EmittedShape ==
    \A k \in 1..Len(calls) :
        LET c == calls[k].cycle
        IN /\ c[1] = calls[k].target
           /\ c[Len(c)] = calls[k].target
           /\ Len(c) % 2 = 1
           /\ Len(c) >= 5
           /\ Len(c) <= max_depth

WitnessEmittedShape ==
    /\ mode = "solve" /\ Len(calls) >= 2
    /\ Len(calls[1].cycle) < Len(calls[Len(calls)].cycle)

\* C5: for every n up to the word width Graph::new does not abort, the graph
\* it returns has 2^n edges, and each edge is the two words drawn for it
\* reduced modulo 2^n.
GenerateTotal ==
    /\ (n <= WordBits => gpc # "panic")
    /\ (gpc = "done" => Len(graph) = 2 ^ n)
    /\ (nodes # <<>> =>
           nodes[Len(nodes)] = <<drawn[1] % (2 ^ n), drawn[2] % (2 ^ n)>>)

\* The steps of a solve call: the call, the build and the two pruning passes,
\* then for each of at most NumEdges targets its start and one pop per frame
\* pushed (the target's own and, each side-tagged vertex being expanded once,
\* one per entry of the two tables, at most 2 * NumEdges), then the return.
StepBound == NumEdges * (2 * NumEdges + 2) + 5

\* C6: solve ends (within StepBound steps), without a panic; it returns the
\* first sequence the handler accepted, the handler is not called after it
\* accepted, and solve returns None when the handler accepted nothing.
SolveOutcome ==
    /\ pc # "panic"
    /\ steps <= StepBound
    /\ \A k \in 1 .. Len(calls) - 1 : ~calls[k].ret
    /\ (calls # <<>> /\ calls[Len(calls)].ret) =>
           (pc = "done" /\ result = Some(calls[Len(calls)].cycle))
    /\ (pc = "done" /\ (calls = <<>> \/ ~calls[Len(calls)].ret)) =>
           result = None

WitnessSolveOutcome ==
    /\ pc = "done" /\ mode = "solve" /\ Len(calls) >= 2
    /\ calls[Len(calls)].ret /\ result = Some(calls[Len(calls)].cycle)

\* C7: solve_for answers None to an even diff or one below 5 with no table
\* built, and a sequence it returns has length diff, diff odd and >= 5.
SolveForDomain ==
    mode = "solve_for" =>
        /\ (diff % 2 = 0 \/ diff < 5) =>
               /\ pc = "done" /\ result = None
               /\ top_nodes = <<>> /\ bottom_nodes = <<>>
               /\ calls = <<>> /\ stack = <<>>
        /\ (pc = "done" /\ result # None) =>
               /\ diff % 2 = 1 /\ diff >= 5
               /\ Len(result[1]) = diff

WitnessSolveForDomain ==
    /\ mode = "solve_for" /\ pc = "done" /\ diff >= 5 /\ diff % 2 = 0
    /\ result = None /\ top_nodes = <<>>
    /\ CyclesOfLen(graph, 5) # {}

\* C8: solve_for(diff) returns a cycle whenever the graph has a cycle of
\* sequence length diff.
SolveForComplete ==
    (mode = "solve_for" /\ pc = "done" /\ result = None
        /\ diff % 2 = 1 /\ diff >= 5)
    => CyclesOfLen(graph, diff) = {}

\* C9: a vertex whose list a pruning pass cleared lies on no cycle, and every
\* edge of every cycle is in both tables after pruning.
PruningSafety ==
    pc = "pruned" =>
        \A len \in CycleLens : \A c \in CyclesOfLen(graph, len) :
            \A i \in 1 .. len - 1 :
                LET t == IF i % 2 = 1 THEN c[i] ELSE c[i + 1]
                    b == IF i % 2 = 1 THEN c[i + 1] ELSE c[i]
                IN /\ t \notin cleared.top
                   /\ b \notin cleared.bottom
                   /\ Contains(top_nodes[t], b)
                   /\ Contains(bottom_nodes[b], t)

WitnessPruningSafety ==
    /\ pc = "pruned"
    /\ CyclesOfLen(graph, 5) # {}
    /\ \E t \in cleared.top : \E k \in 1..Len(graph) : graph[k][1] = t
    /\ \E b \in cleared.bottom : \E k \in 1..Len(graph) : graph[k][2] = b

\* C10 as stated: after pruning every list of both tables is duplicate-free
\* and has length 0 or >= 2, and the tables are mutual inverses.
AdjacencyInvariant ==
    Pruned =>
        /\ \A v \in DOMAIN top_nodes :
              /\ NoDuplicates(top_nodes[v]) /\ NoDuplicates(bottom_nodes[v])
              /\ Len(top_nodes[v]) # 1 /\ Len(bottom_nodes[v]) # 1
        /\ \A t, b \in DOMAIN top_nodes :
              Contains(top_nodes[t], b) <=> Contains(bottom_nodes[b], t)

\* C10 amended: after pruning every list of both tables is duplicate-free, the
\* tables are mutual inverses, and every bottom_nodes list has length 0 or
\* >= 2; a top_nodes list may be left with one element.
AdjacencyInvariantBottom ==
    Pruned =>
        /\ \A v \in DOMAIN top_nodes :
              /\ NoDuplicates(top_nodes[v]) /\ NoDuplicates(bottom_nodes[v])
              /\ Len(bottom_nodes[v]) # 1
        /\ \A t, b \in DOMAIN top_nodes :
              Contains(top_nodes[t], b) <=> Contains(bottom_nodes[b], t)

WitnessTopListOfOne ==
    /\ pc = "pruned"
    /\ \E t \in DOMAIN top_nodes : Len(top_nodes[t]) = 1
    /\ cleared.top # {} /\ cleared.bottom # {}

====
